---- MODULE Spec2Model ----
(***************************************************************************)
(* A model of the location-sharing backend: the in-memory LocationStore    *)
(* (users, friend requests), the SapphireClient friend graph and the axum  *)
(* handlers of main.rs that compose them.                                  *)
(*                                                                         *)
(* Every critical section of the code (one RwLock guard's lifetime) is one *)
(* atomic step.  A handler that takes several guards one after another is  *)
(* several steps, with the task's position in pc and its locals in op.     *)
(* Tasks are the handler invocations the tokio runtime runs in parallel.   *)
(***************************************************************************)
EXTENDS Integers, Sequences, FiniteSets, TLC

VARIABLES
    users,            \* LocationStore.users: user id -> User
    friend_requests,  \* LocationStore.friend_requests: request id -> FriendRequest
    friendships,      \* SapphireClient.friendships: user id -> Vec of user ids
    now,              \* SystemTime::now() in epoch seconds
    pc,               \* per task: the handler position
    op,               \* per task: the handler in progress (or last run) and its locals
    resp              \* per task: the last response returned to the client

vars == <<users, friend_requests, friendships, now, pc, op, resp>>

(***************************************************************************)
(* Bounds of the model.                                                    *)
(***************************************************************************)
NumTasks == 2       \* handler invocations that may run concurrently
MaxFriends == 3     \* longest friend list explored
MaxIdLen == 2       \* longest user id in the id-derivation scenario
MaxCoord == 3       \* coordinates range over -MaxCoord..MaxCoord fixed-point units
MaxClock == 2       \* the clock runs from 0 to MaxClock seconds

Tasks == 1..NumTasks

\* The two users of the workflow and graph scenarios.
UserA == "a"
UserB == "b"
Users == {UserA, UserB}

\* A third user, for the scenarios that need a bystander.
UserC == "c"
GraphUsers == {UserA, UserB, UserC}

(***************************************************************************)
(* Option<T>: None is the empty sequence, Some(x) the one-element one.     *)
(***************************************************************************)
None == <<>>
Some(x) == <<x>>
IsSome(o) == Len(o) = 1
Unwrap(o) == o[1]

(***************************************************************************)
(* std::collections::HashMap as a function with a changing domain.         *)
(***************************************************************************)
EmptyMap == [k \in {} |-> k]
contains_key(m, k) == k \in DOMAIN m
insert(m, k, v) == [x \in DOMAIN m \cup {k} |-> IF x = k THEN v ELSE m[x]]
remove(m, k) == [x \in DOMAIN m \ {k} |-> m[x]]

(***************************************************************************)
(* ApiResponse<T> with its HTTP status.                                    *)
(***************************************************************************)
ApiOk(data) ==
    [status |-> "OK", success |-> TRUE, data |-> Some(data), error |-> None]
ApiErr(e) ==
    [status |-> "BAD_REQUEST", success |-> FALSE, data |-> None, error |-> Some(e)]
NoResponse == [status |-> "none"]
NoOp == [kind |-> "none"]

(***************************************************************************)
(* Friend requests.                                                        *)
(***************************************************************************)
Pending == "pending"
Accepted == "accepted"
Declined == "declined"
FriendRequestStatus == {Pending, Accepted, Declined}

Separator == "_"

\* A derivation that leaves the separator out.
RequestId_NoSeparator(sender_id, receiver_id) == sender_id \o receiver_id

\* format!("{}_{}", sender_id, receiver_id)
RequestId(sender_id, receiver_id) == sender_id \o Separator \o receiver_id

\* The request send_friend_request builds.
NewRequest(request_id, sender_id, receiver_id, timestamp) ==
    [id |-> request_id, sender_id |-> sender_id, receiver_id |-> receiver_id,
     status |-> Pending, timestamp |-> timestamp]

\* A check that never finds the id.
RequestExists_Never(requests, request_id) == FALSE

\* send_friend_request's check under the read guard.
RequestExists(requests, request_id) == contains_key(requests, request_id)

\* requests.get_mut(request_id)
GetMut(requests, request_id) ==
    IF contains_key(requests, request_id) THEN Some(requests[request_id]) ELSE None

\* An accept that stamps the record anew as it flips the status.
AcceptedRequest_Restamp(request) ==
    [request EXCEPT !.status = Accepted, !.timestamp = request.timestamp + 1]

\* accept_friend_request on a present id: request.status = Accepted, and the
\* clone it returns.
AcceptedRequest(request) == [request EXCEPT !.status = Accepted]

\* An accept that drops the record it accepted.
AcceptInPlace_Remove(requests, request_id) == remove(requests, request_id)

AcceptInPlace(requests, request_id) ==
    [requests EXCEPT ![request_id] = AcceptedRequest(requests[request_id])]

\* An accept that reports a missing id as a success, as decline does.
AcceptNotFound_AsOk == ApiOk([accepted |-> TRUE])

\* accept_friend_request on a missing id: Err("Friend request not found"),
\* which the handler answers as a bad request.
AcceptNotFound == ApiErr("Friend request not found")

\* send_friend_request on a present id: Err("Friend request already exists").
SendDuplicate == ApiErr("Friend request already exists")

\* A decline that empties the request store.
DeclineRemove_Clear(requests, request_id) == EmptyMap

\* A decline that keeps the record and marks it Declined.
DeclineRemove_MarkDeclined(requests, request_id) ==
    IF contains_key(requests, request_id)
    THEN [requests EXCEPT ![request_id].status = Declined]
    ELSE requests

\* decline_friend_request's removal under the write guard.
DeclineRemove(requests, request_id) == remove(requests, request_id)

\* A filter that looks at the receiver only.
IsPendingFor_AnyStatus(request, user_id) == request.receiver_id = user_id

\* get_friend_requests' filter.
IsPendingFor(request, user_id) ==
    request.receiver_id = user_id /\ request.status = Pending

\* The records get_friend_requests collects.
PendingFor(requests, user_id) ==
    {requests[k] : k \in {x \in DOMAIN requests : IsPendingFor(requests[x], user_id)}}

\* The orders in which HashMap::values() may yield the records of S: the
\* iteration order of a HashMap is unspecified.
Orderings(S) ==
    {seq \in [1..Cardinality(S) -> S] :
        \A i \in 1..Cardinality(S), j \in 1..Cardinality(S) :
            i # j => seq[i] # seq[j]}

(***************************************************************************)
(* The friend graph.                                                       *)
(***************************************************************************)
RECURSIVE Count(_, _)
Count(s, x) ==
    IF s = <<>> THEN 0
    ELSE (IF Head(s) = x THEN 1 ELSE 0) + Count(Tail(s), x)

\* A membership test that finds everything.
Contains_Any(s, x) == TRUE

\* Vec::contains
Contains(s, x) == \E i \in 1..Len(s) : s[i] = x

\* A retain that drops the first occurrence only.
RECURSIVE Retain_First(_, _)
Retain_First(s, x) ==
    IF s = <<>> THEN <<>>
    ELSE IF Head(s) = x THEN Tail(s)
         ELSE <<Head(s)>> \o Retain_First(Tail(s), x)

\* Vec::retain(|f| f != x)
RECURSIVE Retain(_, _)
Retain(s, x) ==
    IF s = <<>> THEN <<>>
    ELSE IF Head(s) = x THEN Retain(Tail(s), x)
         ELSE <<Head(s)>> \o Retain(Tail(s), x)

\* A push that skips an entry the list already holds.
PushEntry_IfAbsent(m, k, v) ==
    IF contains_key(m, k) /\ Contains(m[k], v) THEN m
    ELSE insert(m, k, Append(IF contains_key(m, k) THEN m[k] ELSE <<>>, v))

\* friendships.entry(k).or_insert_with(Vec::new).push(v)
PushEntry(m, k, v) ==
    insert(m, k, Append(IF contains_key(m, k) THEN m[k] ELSE <<>>, v))

\* SapphireClient::get_friends
GetFriends(m, user_id) == IF contains_key(m, user_id) THEN m[user_id] ELSE <<>>

\* An add_friend that writes the caller's list only.
AddFriend_OneWay(m, user_id, friend_id) == PushEntry(m, user_id, friend_id)

\* SapphireClient::add_friend: both pushes under one write guard.
AddFriend(m, user_id, friend_id) ==
    PushEntry(PushEntry(m, user_id, friend_id), friend_id, user_id)

\* if let Some(friends) = friendships.get_mut(k) { friends.retain(|f| f != x) }
RetainEntry(m, k, x) ==
    IF contains_key(m, k) THEN [m EXCEPT ![k] = Retain(m[k], x)] ELSE m

\* A remove_friend that strips the caller's list only.
RemoveFriend_OneWay(m, user_id, friend_id) == RetainEntry(m, user_id, friend_id)

\* SapphireClient::remove_friend: both retains under one write guard.
RemoveFriend(m, user_id, friend_id) ==
    RetainEntry(RetainEntry(m, user_id, friend_id), friend_id, user_id)

\* The model explores friend lists of at most MaxFriends entries.
WithinBound(m) == \A k \in DOMAIN m : Len(m[k]) <= MaxFriends

(***************************************************************************)
(* Users, locations and the privacy filter.  Coordinates are fixed-point:  *)
(* an integer x stands for x / Scale degrees, with SubCent units to the    *)
(* hundredth of a degree.                                                  *)
(***************************************************************************)
City == "city"
Realtime == "realtime"
SharingLevel == {City, Realtime}

SubCent == 4        \* fixed-point units per 0.01 degree
CityFactor == 100   \* the 100.0 of (x * 100.0).round() / 100.0
Scale == SubCent * CityFactor

Coords == (-MaxCoord)..MaxCoord

\* The locations clients post: any coordinates, a city, no country, and no
\* timestamp (update_location stamps it).
LocationInputs ==
    {[latitude |-> la, longitude |-> lo, city |-> Some("sf"),
      country |-> None, timestamp |-> None] : la \in Coords, lo \in Coords}

\* A synthesized profile that leaves the id out.
EmptyUser_NoId(id) ==
    [id |-> "", user_name |-> None, sharing_level |-> None,
     location |-> None, last_updated |-> None]

\* The profile get_profile and get_friend_location synthesize.
EmptyUser(id) ==
    [id |-> id, user_name |-> None, sharing_level |-> None,
     location |-> None, last_updated |-> None]

\* LocationStore::get_user
get_user(m, user_id) == IF contains_key(m, user_id) THEN Some(m[user_id]) ELSE None

\* An update_location that leaves the id of the record it creates empty.
UpsertLocation_NoId(m, user_id, location, timestamp) ==
    IF contains_key(m, user_id)
    THEN [m EXCEPT ![user_id].location = Some(location),
                   ![user_id].last_updated = Some(timestamp)]
    ELSE insert(m, user_id,
                [id |-> "", user_name |-> None, sharing_level |-> None,
                 location |-> Some(location), last_updated |-> Some(timestamp)])

\* update_location's entry().and_modify().or_insert_with()
UpsertLocation(m, user_id, location, timestamp) ==
    IF contains_key(m, user_id)
    THEN [m EXCEPT ![user_id].location = Some(location),
                   ![user_id].last_updated = Some(timestamp)]
    ELSE insert(m, user_id,
                [id |-> user_id, user_name |-> None, sharing_level |-> None,
                 location |-> Some(location), last_updated |-> Some(timestamp)])

\* An update_sharing_level that always stores a fresh record.
UpsertSharingLevel_Reset(m, user_id, level, timestamp) ==
    insert(m, user_id,
           [id |-> user_id, user_name |-> None, sharing_level |-> Some(level),
            location |-> None, last_updated |-> Some(timestamp)])

\* update_sharing_level's entry().and_modify().or_insert_with()
UpsertSharingLevel(m, user_id, level, timestamp) ==
    IF contains_key(m, user_id)
    THEN [m EXCEPT ![user_id].sharing_level = Some(level),
                   ![user_id].last_updated = Some(timestamp)]
    ELSE insert(m, user_id,
                [id |-> user_id, user_name |-> None, sharing_level |-> Some(level),
                 location |-> None, last_updated |-> Some(timestamp)])

\* An update_profile that stamps the epoch instead of the time it read.
UpsertProfile_StampZero(m, user_id, user_name, timestamp) ==
    IF contains_key(m, user_id)
    THEN [m EXCEPT ![user_id].user_name = user_name,
                   ![user_id].last_updated = Some(0)]
    ELSE insert(m, user_id,
                [id |-> user_id, user_name |-> user_name, sharing_level |-> None,
                 location |-> None, last_updated |-> Some(0)])

\* update_profile's entry().and_modify().or_insert_with(); user_name is an
\* Option and is stored as given.
UpsertProfile(m, user_id, user_name, timestamp) ==
    IF contains_key(m, user_id)
    THEN [m EXCEPT ![user_id].user_name = user_name,
                   ![user_id].last_updated = Some(timestamp)]
    ELSE insert(m, user_id,
                [id |-> user_id, user_name |-> user_name, sharing_level |-> None,
                 location |-> None, last_updated |-> Some(timestamp)])

\* A rounding that takes every half up: floor(x + 0.5).
Round_HalfUp(num, den) == (2 * num + den) \div (2 * den)

\* f64::round of the rational num / den (den > 0): half away from zero.
Round(num, den) ==
    IF num >= 0 THEN (2 * num + den) \div (2 * den)
    ELSE -((2 * (-num) + den) \div (2 * den))

\* (x * 100.0).round() / 100.0 on a fixed-point coordinate.
RoundCity(x) == Round(x * CityFactor, Scale) * (Scale \div CityFactor)

\* The filter of get_friends_locations, on the clone of the friend's record.
FilterBulk(friend) ==
    IF IsSome(friend.location)
    THEN LET location == Unwrap(friend.location)
         IN  IF friend.sharing_level = Some(City)
             THEN [friend EXCEPT !.location =
                      Some([location EXCEPT
                               !.latitude = RoundCity(location.latitude),
                               !.longitude = RoundCity(location.longitude)])]
             ELSE IF friend.sharing_level = Some(Realtime)
             THEN friend
             ELSE [friend EXCEPT !.location = None]
    ELSE friend

\* The filter of get_friend_location, on the clone of the friend's record.
FilterSingle(friend) ==
    IF IsSome(friend.location)
    THEN LET location == Unwrap(friend.location)
         IN  IF friend.sharing_level = Some(City)
             THEN [friend EXCEPT !.location =
                      Some([location EXCEPT
                               !.latitude = RoundCity(location.latitude),
                               !.longitude = RoundCity(location.longitude)])]
             ELSE IF friend.sharing_level = Some(Realtime)
             THEN friend
             ELSE [friend EXCEPT !.location = None]
    ELSE friend

(***************************************************************************)
(* Initial state: LocationStore::new(), SapphireClient::new().             *)
(***************************************************************************)
Init ==
    /\ users = EmptyMap
    /\ friend_requests = EmptyMap
    /\ friendships = EmptyMap
    /\ now = 0
    /\ pc = [t \in Tasks |-> "idle"]
    /\ op = [t \in Tasks |-> NoOp]
    /\ resp = [t \in Tasks |-> NoResponse]

\* A task's step: its position, locals and response change together.
Step(t, newpc, newop, newresp) ==
    /\ pc' = [pc EXCEPT ![t] = newpc]
    /\ op' = [op EXCEPT ![t] = newop]
    /\ resp' = [resp EXCEPT ![t] = newresp]

(***************************************************************************)
(* POST friend-requests: send_friend_request.  The store reads the clock,  *)
(* derives the id and checks for it under a read guard, which it drops;    *)
(* it then inserts under a separate write guard.                           *)
(***************************************************************************)
send_check(t, sender_id, receiver_id) ==
    /\ pc[t] = "idle"
    /\ LET request_id == RequestId(sender_id, receiver_id)
           locals == [kind |-> "send", sender_id |-> sender_id,
                      receiver_id |-> receiver_id, request_id |-> request_id,
                      timestamp |-> now]
       IN  IF RequestExists(friend_requests, request_id)
           THEN Step(t, "idle", locals, SendDuplicate)
           ELSE Step(t, "send_insert", locals, NoResponse)
    /\ UNCHANGED <<users, friend_requests, friendships, now>>

send_insert(t) ==
    /\ pc[t] = "send_insert"
    /\ LET request == NewRequest(op[t].request_id, op[t].sender_id,
                                 op[t].receiver_id, op[t].timestamp)
       IN  /\ friend_requests' = insert(friend_requests, op[t].request_id, request)
           /\ Step(t, "idle", op[t], ApiOk(request))
    /\ UNCHANGED <<users, friendships, now>>

(***************************************************************************)
(* POST friend-requests/:id/accept: the store flips the status under its   *)
(* write guard; the handler then calls add_friend twice, each call under   *)
(* the graph's own write guard.  The path's user_id is only logged.        *)
(***************************************************************************)
accept_store(t, request_id) ==
    /\ pc[t] = "idle"
    /\ LET found == GetMut(friend_requests, request_id)
       IN  IF IsSome(found)
           THEN /\ friend_requests' = AcceptInPlace(friend_requests, request_id)
                /\ Step(t, "accept_add1",
                        [kind |-> "accept", request_id |-> request_id,
                         request |-> AcceptedRequest(Unwrap(found))],
                        NoResponse)
           ELSE /\ UNCHANGED friend_requests
                /\ Step(t, "idle", [kind |-> "accept", request_id |-> request_id],
                        AcceptNotFound)
    /\ UNCHANGED <<users, friendships, now>>

accept_add_first(t) ==
    /\ pc[t] = "accept_add1"
    /\ LET m == AddFriend(friendships, op[t].request.sender_id,
                          op[t].request.receiver_id)
       IN  /\ WithinBound(m)
           /\ friendships' = m
    /\ Step(t, "accept_add2", op[t], NoResponse)
    /\ UNCHANGED <<users, friend_requests, now>>

accept_add_second(t) ==
    /\ pc[t] = "accept_add2"
    /\ LET m == AddFriend(friendships, op[t].request.receiver_id,
                          op[t].request.sender_id)
       IN  /\ WithinBound(m)
           /\ friendships' = m
    /\ Step(t, "idle", op[t], ApiOk(op[t].request))
    /\ UNCHANGED <<users, friend_requests, now>>

(***************************************************************************)
(* POST friend-requests/:id/decline.                                       *)
(***************************************************************************)
decline_friend_request(t, request_id) ==
    /\ pc[t] = "idle"
    /\ friend_requests' = DeclineRemove(friend_requests, request_id)
    /\ Step(t, "idle", [kind |-> "decline", request_id |-> request_id],
            ApiOk([declined |-> TRUE]))
    /\ UNCHANGED <<users, friendships, now>>

(***************************************************************************)
(* GET friend-requests: the pending requests a user has received, in the   *)
(* order the map's iteration yields them.                                  *)
(***************************************************************************)
get_friend_requests(t, user_id) ==
    /\ pc[t] = "idle"
    /\ \E requests \in Orderings(PendingFor(friend_requests, user_id)) :
          Step(t, "idle", [kind |-> "get_friend_requests", user_id |-> user_id],
               ApiOk([requests |-> requests]))
    /\ UNCHANGED <<users, friend_requests, friendships, now>>

(***************************************************************************)
(* POST friends, DELETE friends/:friend_id.                                *)
(***************************************************************************)
add_friend(t, user_id, friend_id) ==
    /\ pc[t] = "idle"
    /\ LET m == AddFriend(friendships, user_id, friend_id)
       IN  /\ WithinBound(m)
           /\ friendships' = m
    /\ Step(t, "idle",
            [kind |-> "add_friend", user_id |-> user_id, friend_id |-> friend_id],
            ApiOk([added |-> TRUE]))
    /\ UNCHANGED <<users, friend_requests, now>>

remove_friend(t, user_id, friend_id) ==
    /\ pc[t] = "idle"
    /\ friendships' = RemoveFriend(friendships, user_id, friend_id)
    /\ Step(t, "idle",
            [kind |-> "remove_friend", user_id |-> user_id, friend_id |-> friend_id],
            ApiOk([removed |-> TRUE]))
    /\ UNCHANGED <<users, friend_requests, now>>

(***************************************************************************)
(* GET friends: the caller's friend list, or the empty list.               *)
(***************************************************************************)
get_friends(t, user_id) ==
    /\ pc[t] = "idle"
    /\ Step(t, "idle", [kind |-> "get_friends", user_id |-> user_id],
            ApiOk([friends |-> GetFriends(friendships, user_id)]))
    /\ UNCHANGED <<users, friend_requests, friendships, now>>

(***************************************************************************)
(* POST location, POST sharing-level.  The store reads the clock before it *)
(* takes the write guard, so the stamp and the write are two steps.        *)
(***************************************************************************)
update_location_start(t, user_id, location) ==
    /\ pc[t] = "idle"
    /\ Step(t, "update_location_write",
            [kind |-> "update_location", user_id |-> user_id,
             location |-> [location EXCEPT !.timestamp = Some(now)],
             timestamp |-> now],
            NoResponse)
    /\ UNCHANGED <<users, friend_requests, friendships, now>>

update_location_write(t) ==
    /\ pc[t] = "update_location_write"
    /\ users' = UpsertLocation(users, op[t].user_id, op[t].location, op[t].timestamp)
    /\ Step(t, "idle", [kind |-> "update_location", user_id |-> op[t].user_id],
            ApiOk([updated |-> TRUE]))
    /\ UNCHANGED <<friend_requests, friendships, now>>

update_sharing_level_start(t, user_id, level) ==
    /\ pc[t] = "idle"
    /\ Step(t, "update_sharing_level_write",
            [kind |-> "update_sharing_level", user_id |-> user_id,
             level |-> level, timestamp |-> now],
            NoResponse)
    /\ UNCHANGED <<users, friend_requests, friendships, now>>

update_sharing_level_write(t) ==
    /\ pc[t] = "update_sharing_level_write"
    /\ users' = UpsertSharingLevel(users, op[t].user_id, op[t].level, op[t].timestamp)
    /\ Step(t, "idle", [kind |-> "update_sharing_level", user_id |-> op[t].user_id],
            ApiOk([updated |-> TRUE]))
    /\ UNCHANGED <<friend_requests, friendships, now>>

(***************************************************************************)
(* PUT users/:user_id: update_profile, with the same two steps.            *)
(***************************************************************************)
update_profile_start(t, user_id, user_name) ==
    /\ pc[t] = "idle"
    /\ Step(t, "update_profile_write",
            [kind |-> "update_profile", user_id |-> user_id,
             user_name |-> user_name, timestamp |-> now],
            NoResponse)
    /\ UNCHANGED <<users, friend_requests, friendships, now>>

update_profile_write(t) ==
    /\ pc[t] = "update_profile_write"
    /\ users' = UpsertProfile(users, op[t].user_id, op[t].user_name, op[t].timestamp)
    /\ Step(t, "idle", [kind |-> "update_profile", user_id |-> op[t].user_id],
            ApiOk([updated |-> TRUE]))
    /\ UNCHANGED <<friend_requests, friendships, now>>

(***************************************************************************)
(* The system clock moves on; it does not go back.                         *)
(***************************************************************************)
Tick ==
    /\ now < MaxClock
    /\ now' = now + 1
    /\ UNCHANGED <<users, friend_requests, friendships, pc, op, resp>>

(***************************************************************************)
(* GET users/:user_id.  The handler takes the id of the profile and        *)
(* nothing about who asks: caller is the client that sent the request.     *)
(***************************************************************************)
get_profile(t, caller, user_id) ==
    /\ pc[t] = "idle"
    /\ LET found == get_user(users, user_id)
       IN  Step(t, "idle",
                [kind |-> "get_profile", caller |-> caller, user_id |-> user_id],
                ApiOk(IF IsSome(found) THEN Unwrap(found) ELSE EmptyUser(user_id)))
    /\ UNCHANGED <<users, friend_requests, friendships, now>>

(***************************************************************************)
(* GET friends/:friend_id: get_friend_location reads the friend list       *)
(* under the graph's guard, then the friend's record under the registry's. *)
(***************************************************************************)
get_friend_location_friends(t, user_id, friend_id) ==
    /\ pc[t] = "idle"
    /\ LET friends == GetFriends(friendships, user_id)
           locals == [kind |-> "get_friend_location", user_id |-> user_id,
                      friend_id |-> friend_id]
       IN  IF ~Contains(friends, friend_id)
           THEN Step(t, "idle", locals, ApiOk(EmptyUser(friend_id)))
           ELSE Step(t, "get_friend_location_user", locals, NoResponse)
    /\ UNCHANGED <<users, friend_requests, friendships, now>>

get_friend_location_user(t) ==
    /\ pc[t] = "get_friend_location_user"
    /\ LET found == get_user(users, op[t].friend_id)
       IN  Step(t, "idle", op[t],
                ApiOk(IF IsSome(found) THEN FilterSingle(Unwrap(found))
                      ELSE EmptyUser(op[t].friend_id)))
    /\ UNCHANGED <<users, friend_requests, friendships, now>>

(***************************************************************************)
(* GET friends/locations: get_friends_locations reads the friend list,     *)
(* then each friend's record in turn, one registry guard per friend.       *)
(***************************************************************************)
get_friends_locations_friends(t, user_id) ==
    /\ pc[t] = "idle"
    /\ LET friends == GetFriends(friendships, user_id)
       IN  IF friends = <<>>
           THEN Step(t, "idle",
                     [kind |-> "get_friends_locations", user_id |-> user_id],
                     ApiOk([users |-> <<>>]))
           ELSE Step(t, "get_friends_locations_loop",
                     [kind |-> "get_friends_locations", user_id |-> user_id,
                      friends |-> friends, friend_locations |-> <<>>],
                     NoResponse)
    /\ UNCHANGED <<users, friend_requests, friendships, now>>

get_friends_locations_loop(t) ==
    /\ pc[t] = "get_friends_locations_loop"
    /\ LET found == get_user(users, Head(op[t].friends))
           friend_locations ==
               IF IsSome(found)
               THEN Append(op[t].friend_locations, FilterBulk(Unwrap(found)))
               ELSE op[t].friend_locations
           rest == Tail(op[t].friends)
       IN  IF rest = <<>>
           THEN Step(t, "idle",
                     [kind |-> "get_friends_locations", user_id |-> op[t].user_id],
                     ApiOk([users |-> friend_locations]))
           ELSE Step(t, "get_friends_locations_loop",
                     [op[t] EXCEPT !.friends = rest,
                                   !.friend_locations = friend_locations],
                     NoResponse)
    /\ UNCHANGED <<users, friend_requests, friendships, now>>

(***************************************************************************)
(* The friend-request workflow and the friend graph under concurrent       *)
(* handlers.  Requests and friendships go between two distinct users; the  *)
(* ids accept and decline are given are the derived ids of those pairs.    *)
(***************************************************************************)
RequestPairs == {p \in Users \X Users : p[1] # p[2]}
RequestIds == {RequestId(p[1], p[2]) : p \in RequestPairs}

Next ==
    \E t \in Tasks :
        \/ \E p \in RequestPairs : send_check(t, p[1], p[2])
        \/ send_insert(t)
        \/ \E id \in RequestIds : accept_store(t, id)
        \/ accept_add_first(t)
        \/ accept_add_second(t)
        \/ \E id \in RequestIds : decline_friend_request(t, id)
        \/ \E p \in RequestPairs : add_friend(t, p[1], p[2])
        \/ \E p \in RequestPairs : remove_friend(t, p[1], p[2])

Spec == Init /\ [][Next]_vars

(***************************************************************************)
(* The id-derivation scenario: user ids are the non-empty strings of at    *)
(* most MaxIdLen characters over an alphabet that holds the separator; one *)
(* task sends a first request and then the request of the reverse pair.    *)
(***************************************************************************)
IdAlphabet == {"a", "b", Separator}
PlainAlphabet == IdAlphabet \ {Separator}

RECURSIVE StringsOfLen(_, _)
StringsOfLen(alphabet, n) ==
    IF n = 1 THEN alphabet
    ELSE {s \o c : s \in StringsOfLen(alphabet, n - 1), c \in alphabet}

StringsUpTo(alphabet, n) == UNION {StringsOfLen(alphabet, k) : k \in 1..n}

AllIds == StringsUpTo(IdAlphabet, MaxIdLen)
\* The ids that do not contain the separator.
PlainIds == StringsUpTo(PlainAlphabet, MaxIdLen)

\* The store is empty, or holds the request of the reverse pair and none of
\* this pair.
FirstOrReverse(sender_id, receiver_id) ==
    /\ \A k \in DOMAIN friend_requests :
          /\ friend_requests[k].sender_id = receiver_id
          /\ friend_requests[k].receiver_id = sender_id
    /\ \A k \in DOMAIN friend_requests :
          ~(/\ friend_requests[k].sender_id = sender_id
            /\ friend_requests[k].receiver_id = receiver_id)

NextIds ==
    \/ \E s \in AllIds, r \in AllIds :
          FirstOrReverse(s, r) /\ send_check(1, s, r)
    \/ send_insert(1)

SpecIds == Init /\ [][NextIds]_vars

(***************************************************************************)
(* The privacy scenario: one task at a time posts locations and sharing    *)
(* levels for UserA, links and unlinks UserB and UserA, and reads          *)
(* profiles and friend locations for any user.                             *)
(***************************************************************************)
NextPrivacy ==
    \/ \E location \in LocationInputs : update_location_start(1, UserA, location)
    \/ update_location_write(1)
    \/ \E level \in SharingLevel : update_sharing_level_start(1, UserA, level)
    \/ update_sharing_level_write(1)
    \/ add_friend(1, UserB, UserA)
    \/ remove_friend(1, UserB, UserA)
    \/ \E caller \in Users, u \in Users : get_profile(1, caller, u)
    \/ \E u \in Users : get_friends(1, u)
    \/ \E u \in Users, f \in Users : get_friend_location_friends(1, u, f)
    \/ get_friend_location_user(1)
    \/ \E u \in Users : get_friends_locations_friends(1, u)
    \/ get_friends_locations_loop(1)

SpecPrivacy == Init /\ [][NextPrivacy]_vars

(***************************************************************************)
(* The pending-list scenario: one task at a time sends, accepts, declines  *)
(* and lists requests between any two users, a user and itself included,   *)
(* so that a user can have several requests to list; remove_friend undoes  *)
(* what the accepts add to the graph.                                      *)
(***************************************************************************)
AllPairs == Users \X Users
AllRequestIds == {RequestId(p[1], p[2]) : p \in AllPairs}

NextRequests ==
    \/ \E p \in AllPairs : send_check(1, p[1], p[2])
    \/ send_insert(1)
    \/ \E id \in AllRequestIds : accept_store(1, id)
    \/ accept_add_first(1)
    \/ accept_add_second(1)
    \/ \E id \in AllRequestIds : decline_friend_request(1, id)
    \/ \E p \in AllPairs : remove_friend(1, p[1], p[2])
    \/ \E u \in Users : get_friend_requests(1, u)

SpecRequests == Init /\ [][NextRequests]_vars

(***************************************************************************)
(* The graph scenario: one task at a time adds, removes and lists friends  *)
(* among three users, a user and itself included.                          *)
(***************************************************************************)
NextGraph ==
    \/ \E u \in GraphUsers, f \in GraphUsers : add_friend(1, u, f)
    \/ \E u \in GraphUsers, f \in GraphUsers : remove_friend(1, u, f)
    \/ \E u \in GraphUsers : get_friends(1, u)

SpecGraph == Init /\ [][NextGraph]_vars

(***************************************************************************)
(* The registry scenario: the three mutations of the user registry, for    *)
(* two users, issued one after another (each completes before the next     *)
(* starts) while the clock moves on.                                       *)
(***************************************************************************)
RegistryLocations ==
    {l \in LocationInputs :
        l.latitude = l.longitude /\ l.latitude \in {0, MaxCoord}}

UserNames == {None, Some("ann")}

NextRegistry ==
    \/ Tick
    \/ \E u \in Users, location \in RegistryLocations :
          update_location_start(1, u, location)
    \/ update_location_write(1)
    \/ \E u \in Users, level \in SharingLevel :
          update_sharing_level_start(1, u, level)
    \/ update_sharing_level_write(1)
    \/ \E u \in Users, user_name \in UserNames :
          update_profile_start(1, u, user_name)
    \/ update_profile_write(1)

SpecRegistry == Init /\ [][NextRegistry]_vars

(***************************************************************************)
(* The guards.  In the scenarios above a critical section is one step; in  *)
(* this one a task first waits for the RwLock, then holds its guard, and   *)
(* the section's work and the guard's drop are the step that follows.      *)
(* Which guards are alive is read off the task's position: a position      *)
(* ending in _wait is the call of read() or write(), the position after it *)
(* lies inside the guard's scope.                                          *)
(***************************************************************************)
WaitingPositions ==
    {"send_read_wait", "send_write_wait", "accept_wait", "accept_add1_wait",
     "accept_add2_wait", "decline_wait", "add_wait", "remove_wait",
     "update_wait", "locate_friends_wait", "locate_user_wait"}

\* The map and the mode of the guard each waiting position asks for.
Wants(position) ==
    CASE position = "send_read_wait" -> <<"friend_requests", "read">>
      [] position = "send_write_wait" -> <<"friend_requests", "write">>
      [] position = "accept_wait" -> <<"friend_requests", "write">>
      [] position = "decline_wait" -> <<"friend_requests", "write">>
      [] position = "accept_add1_wait" -> <<"friendships", "write">>
      [] position = "accept_add2_wait" -> <<"friendships", "write">>
      [] position = "add_wait" -> <<"friendships", "write">>
      [] position = "remove_wait" -> <<"friendships", "write">>
      [] position = "update_wait" -> <<"users", "write">>
      [] position = "locate_friends_wait" -> <<"friendships", "read">>
      [] position = "locate_user_wait" -> <<"users", "read">>

\* The position inside the guard's scope.
Entered(position) ==
    CASE position = "send_read_wait" -> "send_read"
      [] position = "send_write_wait" -> "send_write"
      [] position = "accept_wait" -> "accept_write"
      [] position = "decline_wait" -> "decline_write"
      [] position = "accept_add1_wait" -> "accept_add1_write"
      [] position = "accept_add2_wait" -> "accept_add2_write"
      [] position = "add_wait" -> "add_write"
      [] position = "remove_wait" -> "remove_write"
      [] position = "update_wait" -> "update_write"
      [] position = "locate_friends_wait" -> "locate_friends_read"
      [] position = "locate_user_wait" -> "locate_user_read"

\* Guard lifetimes of a send_friend_request without its drop(requests): the
\* read guard lives on while the task asks for the write guard.
Guards_NoDrop(position) ==
    CASE position \in {"send_read", "send_write_wait"} ->
             {<<"friend_requests", "read">>}
      [] position = "send_write" ->
             {<<"friend_requests", "read">>, <<"friend_requests", "write">>}
      [] position \in {"accept_write", "decline_write"} ->
             {<<"friend_requests", "write">>}
      [] position \in {"accept_add1_write", "accept_add2_write",
                       "add_write", "remove_write"} ->
             {<<"friendships", "write">>}
      [] position = "update_write" -> {<<"users", "write">>}
      [] position = "locate_friends_read" -> {<<"friendships", "read">>}
      [] position = "locate_user_read" -> {<<"users", "read">>}
      [] OTHER -> {}

\* The guards alive at each position: every guard is dropped at the end of
\* the store or client method that took it, and send_friend_request drops
\* its read guard before it builds the request.
Guards(position) ==
    CASE position = "send_read" -> {<<"friend_requests", "read">>}
      [] position \in {"send_write", "accept_write", "decline_write"} ->
             {<<"friend_requests", "write">>}
      [] position \in {"accept_add1_write", "accept_add2_write",
                       "add_write", "remove_write"} ->
             {<<"friendships", "write">>}
      [] position = "update_write" -> {<<"users", "write">>}
      [] position = "locate_friends_read" -> {<<"friendships", "read">>}
      [] position = "locate_user_read" -> {<<"users", "read">>}
      [] OTHER -> {}

Held(t) == Guards(pc[t])

\* RwLock::read() returns when no task holds the write guard of the map;
\* RwLock::write() when no task, the caller included, holds any guard of it.
CanRead(map) == \A t \in Tasks : <<map, "write">> \notin Held(t)
CanWrite(map) == \A t \in Tasks : \A g \in Held(t) : g[1] # map

acquire(t) ==
    /\ pc[t] \in WaitingPositions
    /\ LET want == Wants(pc[t])
       IN  IF want[2] = "read" THEN CanRead(want[1]) ELSE CanWrite(want[1])
    /\ pc' = [pc EXCEPT ![t] = Entered(pc[t])]
    /\ UNCHANGED <<users, friend_requests, friendships, now, op, resp>>

\* The add_friend calls a task at the position has still to make.
AddsLeft(position) ==
    CASE position \in {"accept_wait", "accept_write",
                       "accept_add1_wait", "accept_add1_write"} -> 2
      [] position \in {"accept_add2_wait", "accept_add2_write",
                       "add_wait", "add_write"} -> 1
      [] OTHER -> 0

RECURSIVE InFlightAdds(_)
InFlightAdds(n) == IF n = 0 THEN 0 ELSE AddsLeft(pc[n]) + InFlightAdds(n - 1)

\* The model starts a handler that adds n entries to a list only when all
\* the adds under way and its own leave every list within MaxFriends.
HasRoom(n) ==
    /\ InFlightAdds(NumTasks) + n <= MaxFriends
    /\ \A k \in DOMAIN friendships :
          Len(friendships[k]) + InFlightAdds(NumTasks) + n <= MaxFriends

\* send_friend_request
send_friend_request_begin(t, sender_id, receiver_id) ==
    /\ pc[t] = "idle"
    /\ Step(t, "send_read_wait",
            [kind |-> "send", sender_id |-> sender_id,
             receiver_id |-> receiver_id,
             request_id |-> RequestId(sender_id, receiver_id),
             timestamp |-> now],
            NoResponse)
    /\ UNCHANGED <<users, friend_requests, friendships, now>>

send_friend_request_checked(t) ==
    /\ pc[t] = "send_read"
    /\ IF RequestExists(friend_requests, op[t].request_id)
       THEN Step(t, "idle", [kind |-> "send"], SendDuplicate)
       ELSE Step(t, "send_write_wait", op[t], NoResponse)
    /\ UNCHANGED <<users, friend_requests, friendships, now>>

send_friend_request_inserted(t) ==
    /\ pc[t] = "send_write"
    /\ LET request == NewRequest(op[t].request_id, op[t].sender_id,
                                 op[t].receiver_id, op[t].timestamp)
       IN  /\ friend_requests' = insert(friend_requests, op[t].request_id, request)
           /\ Step(t, "idle", [kind |-> "send"], ApiOk(request))
    /\ UNCHANGED <<users, friendships, now>>

\* accept_friend_request and the handler's two add_friend calls
accept_friend_request_begin(t, request_id) ==
    /\ pc[t] = "idle"
    /\ HasRoom(2)
    /\ Step(t, "accept_wait", [kind |-> "accept", request_id |-> request_id],
            NoResponse)
    /\ UNCHANGED <<users, friend_requests, friendships, now>>

accept_friend_request_flipped(t) ==
    /\ pc[t] = "accept_write"
    /\ LET found == GetMut(friend_requests, op[t].request_id)
       IN  IF IsSome(found)
           THEN /\ friend_requests' = AcceptInPlace(friend_requests, op[t].request_id)
                /\ Step(t, "accept_add1_wait",
                        [kind |-> "accept", request_id |-> op[t].request_id,
                         request |-> AcceptedRequest(Unwrap(found))],
                        NoResponse)
           ELSE /\ UNCHANGED friend_requests
                /\ Step(t, "idle", [kind |-> "accept"], AcceptNotFound)
    /\ UNCHANGED <<users, friendships, now>>

accept_friend_request_added_first(t) ==
    /\ pc[t] = "accept_add1_write"
    /\ friendships' = AddFriend(friendships, op[t].request.sender_id,
                                op[t].request.receiver_id)
    /\ Step(t, "accept_add2_wait", op[t], NoResponse)
    /\ UNCHANGED <<users, friend_requests, now>>

accept_friend_request_added_second(t) ==
    /\ pc[t] = "accept_add2_write"
    /\ friendships' = AddFriend(friendships, op[t].request.receiver_id,
                                op[t].request.sender_id)
    /\ Step(t, "idle", [kind |-> "accept"], ApiOk(op[t].request))
    /\ UNCHANGED <<users, friend_requests, now>>

\* decline_friend_request
decline_friend_request_begin(t, request_id) ==
    /\ pc[t] = "idle"
    /\ Step(t, "decline_wait", [kind |-> "decline", request_id |-> request_id],
            NoResponse)
    /\ UNCHANGED <<users, friend_requests, friendships, now>>

decline_friend_request_removed(t) ==
    /\ pc[t] = "decline_write"
    /\ friend_requests' = DeclineRemove(friend_requests, op[t].request_id)
    /\ Step(t, "idle", [kind |-> "decline"], ApiOk([declined |-> TRUE]))
    /\ UNCHANGED <<users, friendships, now>>

\* add_friend, remove_friend
add_friend_begin(t, user_id, friend_id) ==
    /\ pc[t] = "idle"
    /\ HasRoom(1)
    /\ Step(t, "add_wait",
            [kind |-> "add_friend", user_id |-> user_id, friend_id |-> friend_id],
            NoResponse)
    /\ UNCHANGED <<users, friend_requests, friendships, now>>

add_friend_pushed(t) ==
    /\ pc[t] = "add_write"
    /\ friendships' = AddFriend(friendships, op[t].user_id, op[t].friend_id)
    /\ Step(t, "idle", [kind |-> "add_friend"], ApiOk([added |-> TRUE]))
    /\ UNCHANGED <<users, friend_requests, now>>

remove_friend_begin(t, user_id, friend_id) ==
    /\ pc[t] = "idle"
    /\ Step(t, "remove_wait",
            [kind |-> "remove_friend", user_id |-> user_id,
             friend_id |-> friend_id],
            NoResponse)
    /\ UNCHANGED <<users, friend_requests, friendships, now>>

remove_friend_retained(t) ==
    /\ pc[t] = "remove_write"
    /\ friendships' = RemoveFriend(friendships, op[t].user_id, op[t].friend_id)
    /\ Step(t, "idle", [kind |-> "remove_friend"], ApiOk([removed |-> TRUE]))
    /\ UNCHANGED <<users, friend_requests, now>>

\* update_location
update_location_begin(t, user_id, location) ==
    /\ pc[t] = "idle"
    /\ Step(t, "update_wait",
            [kind |-> "update_location", user_id |-> user_id,
             location |-> [location EXCEPT !.timestamp = Some(now)],
             timestamp |-> now],
            NoResponse)
    /\ UNCHANGED <<users, friend_requests, friendships, now>>

update_location_stored(t) ==
    /\ pc[t] = "update_write"
    /\ users' = UpsertLocation(users, op[t].user_id, op[t].location, op[t].timestamp)
    /\ Step(t, "idle", [kind |-> "update_location"], ApiOk([updated |-> TRUE]))
    /\ UNCHANGED <<friend_requests, friendships, now>>

\* get_friend_location: the graph's read guard, then the registry's
get_friend_location_begin(t, user_id, friend_id) ==
    /\ pc[t] = "idle"
    /\ Step(t, "locate_friends_wait",
            [kind |-> "get_friend_location", user_id |-> user_id,
             friend_id |-> friend_id],
            NoResponse)
    /\ UNCHANGED <<users, friend_requests, friendships, now>>

get_friend_location_listed(t) ==
    /\ pc[t] = "locate_friends_read"
    /\ IF ~Contains(GetFriends(friendships, op[t].user_id), op[t].friend_id)
       THEN Step(t, "idle", [kind |-> "get_friend_location"],
                 ApiOk(EmptyUser(op[t].friend_id)))
       ELSE Step(t, "locate_user_wait", op[t], NoResponse)
    /\ UNCHANGED <<users, friend_requests, friendships, now>>

get_friend_location_fetched(t) ==
    /\ pc[t] = "locate_user_read"
    /\ LET found == get_user(users, op[t].friend_id)
       IN  Step(t, "idle", [kind |-> "get_friend_location"],
                ApiOk(IF IsSome(found) THEN FilterSingle(Unwrap(found))
                      ELSE EmptyUser(op[t].friend_id)))
    /\ UNCHANGED <<users, friend_requests, friendships, now>>

\* The location posted in the guard scenario.
GuardLocation ==
    [latitude |-> 0, longitude |-> 0, city |-> Some("sf"),
     country |-> None, timestamp |-> None]

\* One step of a handler that has begun.
Continue(t) ==
    \/ acquire(t)
    \/ send_friend_request_checked(t)
    \/ send_friend_request_inserted(t)
    \/ accept_friend_request_flipped(t)
    \/ accept_friend_request_added_first(t)
    \/ accept_friend_request_added_second(t)
    \/ decline_friend_request_removed(t)
    \/ add_friend_pushed(t)
    \/ remove_friend_retained(t)
    \/ update_location_stored(t)
    \/ get_friend_location_listed(t)
    \/ get_friend_location_fetched(t)

\* The handlers begin on requests about UserA and UserB.
Begin(t) ==
    \/ send_friend_request_begin(t, UserA, UserB)
    \/ accept_friend_request_begin(t, RequestId(UserA, UserB))
    \/ decline_friend_request_begin(t, RequestId(UserA, UserB))
    \/ add_friend_begin(t, UserA, UserB)
    \/ remove_friend_begin(t, UserA, UserB)
    \/ update_location_begin(t, UserA, GuardLocation)
    \/ get_friend_location_begin(t, UserB, UserA)

NextGuards == \E t \in Tasks : Begin(t) \/ Continue(t)

SpecGuards == Init /\ [][NextGuards]_vars

(***************************************************************************)
(* Observations used by the properties below.                              *)
(***************************************************************************)
\* A record from sender_id to receiver_id is in the request store.
HasRecord(sender_id, receiver_id) ==
    \E k \in DOMAIN friend_requests :
        /\ friend_requests[k].sender_id = sender_id
        /\ friend_requests[k].receiver_id = receiver_id

\* b occurs in a's friend list.
IsFriendOf(m, a, b) == Contains(GetFriends(m, a), b)

(***************************************************************************)
(* C1.  A send whose check finds a record under the derived id answers     *)
(* with the duplicate-request error and leaves the request store as it     *)
(* was.  A send whose check finds none goes on to insert, and its insert   *)
(* stores under the derived id the record (id, sender, receiver, Pending,  *)
(* timestamp) and returns it; when the id is absent at the insert, the     *)
(* store gains exactly that one record and keeps every other one.          *)
(***************************************************************************)
C1_SendContract ==
    [][\A t \in Tasks :
        /\ \A p \in RequestPairs :
              send_check(t, p[1], p[2]) =>
                  LET id == p[1] \o "_" \o p[2]
                  IN  /\ friend_requests' = friend_requests
                      /\ IF id \in DOMAIN friend_requests
                         THEN /\ pc'[t] = "idle"
                              /\ resp'[t].status = "BAD_REQUEST"
                              /\ resp'[t].error = <<"Friend request already exists">>
                         ELSE pc'[t] = "send_insert"
        /\ send_insert(t) =>
              LET id == op[t].sender_id \o "_" \o op[t].receiver_id
                  rec == [id |-> id, sender_id |-> op[t].sender_id,
                          receiver_id |-> op[t].receiver_id,
                          status |-> "pending", timestamp |-> op[t].timestamp]
              IN  /\ id \in DOMAIN friend_requests'
                  /\ friend_requests'[id] = rec
                  /\ resp'[t].status = "OK"
                  /\ resp'[t].data = <<rec>>
                  /\ \A k \in DOMAIN friend_requests \ {id} :
                        k \in DOMAIN friend_requests'
                        /\ friend_requests'[k] = friend_requests[k]
                  /\ id \notin DOMAIN friend_requests =>
                        DOMAIN friend_requests' = DOMAIN friend_requests \cup {id}
      ]_vars

\* One send of a pair was answered with its Pending record, which is stored,
\* and another send of the same pair with the duplicate-request error.
C1_Witness ==
    \E t1 \in Tasks, t2 \in Tasks :
        /\ pc[t1] = "idle" /\ op[t1].kind = "send" /\ resp[t1].status = "OK"
        /\ pc[t2] = "idle" /\ op[t2].kind = "send"
        /\ resp[t2].status = "BAD_REQUEST"
        /\ op[t1].request_id = op[t2].request_id
        /\ op[t1].request_id \in DOMAIN friend_requests
        /\ friend_requests[op[t1].request_id].status = Pending

(***************************************************************************)
(* C2.  A send never writes a record into the request store while a        *)
(* record with that id is present.                                         *)
(***************************************************************************)
C2_NoInsertOverPresent ==
    [][\A t \in Tasks :
          send_insert(t) => op[t].request_id \notin DOMAIN friend_requests
      ]_vars

(***************************************************************************)
(* C4.  Accepted is terminal: a record that is Accepted and stays in the   *)
(* store over a step is Accepted after it.                                 *)
(***************************************************************************)
C4_AcceptedTerminal ==
    [][\A k \in DOMAIN friend_requests :
          (friend_requests[k].status = Accepted /\ k \in DOMAIN friend_requests')
              => friend_requests'[k].status = Accepted
      ]_vars

(***************************************************************************)
(* C5, as claimed.  Once a record is Accepted no step removes it: only a   *)
(* Pending record ever leaves the store.                                   *)
(***************************************************************************)
C5_AcceptedNeverRemoved ==
    [][\A k \in DOMAIN friend_requests :
          friend_requests[k].status = Accepted => k \in DOMAIN friend_requests'
      ]_vars

(***************************************************************************)
(* C5, amended.  A record leaves the store only by a decline of its id,    *)
(* and a decline removes the record whatever its status; no other          *)
(* operation (send, accept, the graph operations) removes a record.        *)
(***************************************************************************)
C5_RemovedOnlyByDecline ==
    [][/\ \A k \in DOMAIN friend_requests :
             k \notin DOMAIN friend_requests' =>
                 \E t \in Tasks : decline_friend_request(t, k)
       /\ \A t \in Tasks : \A k \in RequestIds :
             decline_friend_request(t, k) => k \notin DOMAIN friend_requests'
      ]_vars

\* A request was accepted (its accept answered with the Accepted record) and
\* then declined by the other task: no record is left under its id.
C5_Witness ==
    \E t1 \in Tasks, t2 \in Tasks :
        /\ pc[t1] = "idle" /\ op[t1].kind = "accept" /\ resp[t1].status = "OK"
        /\ pc[t2] = "idle" /\ op[t2].kind = "decline"
        /\ op[t2].request_id = op[t1].request_id
        /\ op[t1].request_id \notin DOMAIN friend_requests

(***************************************************************************)
(* C8.  Bidirectionality: in every reachable state, for all users A and B, *)
(* B occurs in A's friend list iff A occurs in B's friend list.            *)
(***************************************************************************)
C8_Bidirectional ==
    \A a \in Users, b \in Users :
        IsFriendOf(friendships, a, b) <=> IsFriendOf(friendships, b, a)

\* add_friend(a, b) with a # b has returned and both lists hold the edge.
C8_Witness ==
    \E t \in Tasks :
        /\ pc[t] = "idle" /\ op[t].kind = "add_friend"
        /\ op[t].user_id # op[t].friend_id
        /\ IsFriendOf(friendships, op[t].user_id, op[t].friend_id)
        /\ IsFriendOf(friendships, op[t].friend_id, op[t].user_id)

(***************************************************************************)
(* C9, as claimed.  When the accept orchestration has made only the first  *)
(* of its two add_friend calls, the graph is asymmetric between the        *)
(* request's endpoints: exactly one of the two lists holds the other       *)
(* endpoint.                                                               *)
(***************************************************************************)
C9_AsymmetricAfterFirstCall ==
    \A t \in Tasks :
        pc[t] = "accept_add2" =>
            (IsFriendOf(friendships, op[t].request.sender_id,
                        op[t].request.receiver_id)
             # IsFriendOf(friendships, op[t].request.receiver_id,
                          op[t].request.sender_id))

(***************************************************************************)
(* C9, amended.  The first add_friend call of the accept orchestration     *)
(* already writes both directions: it adds one occurrence of the receiver  *)
(* to the sender's list and one occurrence of the sender to the receiver's *)
(* list, so an orchestration that stops before the second call leaves the  *)
(* graph symmetric between the two endpoints.                              *)
(***************************************************************************)
C9_FirstCallWritesBothDirections ==
    [][\A t \in Tasks :
          accept_add_first(t) =>
              LET s == op[t].request.sender_id
                  r == op[t].request.receiver_id
              IN  /\ Count(GetFriends(friendships', s), r)
                        = Count(GetFriends(friendships, s), r) + 1
                  /\ Count(GetFriends(friendships', r), s)
                        = Count(GetFriends(friendships, r), s) + 1
                  /\ IsFriendOf(friendships', s, r)
                  /\ IsFriendOf(friendships', r, s)
      ]_vars

\* A task stands between the two calls and both endpoints list each other.
C9_Witness ==
    \E t \in Tasks :
        /\ pc[t] = "accept_add2"
        /\ op[t].request_id \in DOMAIN friend_requests
        /\ friend_requests[op[t].request_id].status = Accepted
        /\ IsFriendOf(friendships, op[t].request.sender_id,
                      op[t].request.receiver_id)
        /\ IsFriendOf(friendships, op[t].request.receiver_id,
                      op[t].request.sender_id)

(***************************************************************************)
(* C10.  accept on an id with no record answers with the not-found error   *)
(* and leaves the request store, the friend graph and the user registry    *)
(* unchanged; no add_friend call follows.                                  *)
(***************************************************************************)
C10_AcceptMissing ==
    [][\A t \in Tasks : \A id \in RequestIds :
          (accept_store(t, id) /\ id \notin DOMAIN friend_requests) =>
              /\ resp'[t].status = "BAD_REQUEST"
              /\ resp'[t].success = FALSE
              /\ resp'[t].error = <<"Friend request not found">>
              /\ pc'[t] = "idle"
              /\ friend_requests' = friend_requests
              /\ friendships' = friendships
              /\ users' = users
      ]_vars

\* An accept of a missing id has been answered while the graph holds edges.
C10_Witness ==
    \E t \in Tasks :
        /\ pc[t] = "idle" /\ op[t].kind = "accept"
        /\ resp[t].status = "BAD_REQUEST"
        /\ op[t].request_id \notin DOMAIN friend_requests
        /\ friendships # EmptyMap

(***************************************************************************)
(* C3, as claimed.  For any two distinct user ids A and B, over the whole  *)
(* id alphabet (separator included): when send(B, A), issued after a       *)
(* successful send(A, B), has returned, the two derived ids differ, the    *)
(* send has succeeded and both records are in the store.                   *)
(***************************************************************************)
C3_ReversePairDistinct ==
    \A t \in Tasks :
        (/\ pc[t] = "idle" /\ op[t].kind = "send"
         /\ op[t].sender_id # op[t].receiver_id
         /\ HasRecord(op[t].receiver_id, op[t].sender_id)) =>
            LET B == op[t].sender_id
                A == op[t].receiver_id
            IN  /\ RequestId(A, B) # RequestId(B, A)
                /\ resp[t].status = "OK"
                /\ HasRecord(B, A)

(***************************************************************************)
(* C3, amended.  The same for any two distinct user ids A and B that do    *)
(* not contain the separator character: the derived ids differ, the        *)
(* send(B, A) succeeds and the store then holds the two records.           *)
(***************************************************************************)
C3_PlainReversePairDistinct ==
    \A t \in Tasks :
        (/\ pc[t] = "idle" /\ op[t].kind = "send"
         /\ op[t].sender_id # op[t].receiver_id
         /\ op[t].sender_id \in PlainIds
         /\ op[t].receiver_id \in PlainIds
         /\ HasRecord(op[t].receiver_id, op[t].sender_id)) =>
            LET B == op[t].sender_id
                A == op[t].receiver_id
            IN  /\ RequestId(A, B) # RequestId(B, A)
                /\ resp[t].status = "OK"
                /\ HasRecord(B, A)
                /\ Cardinality(DOMAIN friend_requests) = 2

\* send(B, A) has returned after send(A, B) for separator-free ids of
\* different lengths, and both records are in the store.
C3_Witness ==
    \E t \in Tasks :
        /\ pc[t] = "idle" /\ op[t].kind = "send" /\ resp[t].status = "OK"
        /\ op[t].sender_id \in PlainIds /\ op[t].receiver_id \in PlainIds
        /\ Len(op[t].sender_id) # Len(op[t].receiver_id)
        /\ HasRecord(op[t].receiver_id, op[t].sender_id)
        /\ HasRecord(op[t].sender_id, op[t].receiver_id)

(***************************************************************************)
(* The reference transform of the privacy filter: Realtime returns the     *)
(* location as it is; City rounds latitude and longitude each to the       *)
(* nearest hundredth, a half going away from zero, and keeps the other     *)
(* fields; an absent sharing level returns no location.                    *)
(***************************************************************************)
Abs(x) == IF x >= 0 THEN x ELSE -x

\* The hundredth nearest to x; of two equally near, the one farther from zero.
NearestHundredth(x) ==
    CHOOSE r \in (x - SubCent)..(x + SubCent) :
        /\ r % SubCent = 0
        /\ 2 * Abs(r - x) <= SubCent
        /\ (2 * Abs(r - x) = SubCent => Abs(r) > Abs(x))

Transform(location, sharing_level) ==
    IF location = None THEN None
    ELSE IF sharing_level = Some("realtime") THEN location
    ELSE IF sharing_level = Some("city")
    THEN Some([latitude |-> NearestHundredth(location[1].latitude),
               longitude |-> NearestHundredth(location[1].longitude),
               city |-> location[1].city,
               country |-> location[1].country,
               timestamp |-> location[1].timestamp])
    ELSE None

\* What a third party may see of user_id's location in the current state.
Shown(user_id) ==
    IF user_id \in DOMAIN users
    THEN Transform(users[user_id].location, users[user_id].sharing_level)
    ELSE None

\* A stored record as a third party may see it.
Presented(user) ==
    [id |-> user.id, user_name |-> user.user_name,
     sharing_level |-> user.sharing_level,
     location |-> Transform(user.location, user.sharing_level),
     last_updated |-> user.last_updated]

RECURSIVE PresentedList(_)
PresentedList(friends) ==
    IF friends = <<>> THEN <<>>
    ELSE (IF Head(friends) \in DOMAIN users
          THEN <<Presented(users[Head(friends)])>> ELSE <<>>)
         \o PresentedList(Tail(friends))

(***************************************************************************)
(* C6.  Every response that carries user U's location to a caller other    *)
(* than U (profile fetch, single and bulk friend-location retrieval)       *)
(* carries the privacy filter's result for U's current sharing level:      *)
(* nothing when the level is absent, rounded coordinates when it is City.  *)
(***************************************************************************)
C6_ThirdPartyReadsFiltered ==
    \A t \in Tasks :
        (pc[t] = "idle" /\ resp[t].status = "OK") =>
            /\ (op[t].kind = "get_profile" /\ op[t].caller # op[t].user_id) =>
                  (IsSome(resp[t].data[1].location) =>
                      resp[t].data[1].location = Shown(op[t].user_id))
            /\ (op[t].kind = "get_friend_location"
                /\ op[t].user_id # op[t].friend_id) =>
                  (IsSome(resp[t].data[1].location) =>
                      resp[t].data[1].location = Shown(op[t].friend_id))
            /\ op[t].kind = "get_friends_locations" =>
                  \A i \in 1..Len(resp[t].data[1].users) :
                      LET friend == resp[t].data[1].users[i]
                      IN  (friend.id # op[t].user_id /\ IsSome(friend.location))
                              => friend.location = Shown(friend.id)

(***************************************************************************)
(* C7.  The transform that the single and the bulk friend-location         *)
(* retrieval apply equals the reference transform, for every stored        *)
(* location and sharing level: the single retrieval of a listed friend     *)
(* with a record answers with that record under the reference transform,   *)
(* and the bulk retrieval with the records of the listed friends, in list  *)
(* order, each under the reference transform.                              *)
(***************************************************************************)
C7_FilterMatchesReference ==
    \A t \in Tasks :
        (pc[t] = "idle" /\ resp[t].status = "OK") =>
            /\ (/\ op[t].kind = "get_friend_location"
                /\ IsFriendOf(friendships, op[t].user_id, op[t].friend_id)
                /\ op[t].friend_id \in DOMAIN users) =>
                  resp[t].data[1] = Presented(users[op[t].friend_id])
            /\ op[t].kind = "get_friends_locations" =>
                  resp[t].data[1].users =
                      PresentedList(GetFriends(friendships, op[t].user_id))

\* A single retrieval has answered for a City-level friend whose stored
\* latitude lies halfway between two hundredths below zero, and the answer
\* carries the hundredth farther from zero.
C7_Witness ==
    \E t \in Tasks :
        /\ pc[t] = "idle" /\ resp[t].status = "OK"
        /\ op[t].kind = "get_friend_location"
        /\ op[t].friend_id \in DOMAIN users
        /\ users[op[t].friend_id].sharing_level = Some(City)
        /\ IsSome(users[op[t].friend_id].location)
        /\ IsSome(resp[t].data[1].location)
        /\ LET stored == users[op[t].friend_id].location[1].latitude
               shown == resp[t].data[1].location[1].latitude
           IN  /\ stored < 0
               /\ 2 * Abs(stored - shown) = SubCent
               /\ shown < stored

(***************************************************************************)
(* C11.  decline always reports success and is an idempotent deletion:     *)
(* after it no record with the id exists, every other record is as it was, *)
(* a decline of an absent id changes nothing, and a second decline of the  *)
(* id applied to the store the first one left gives that same store.  The  *)
(* friend graph and the user registry are not touched.                     *)
(***************************************************************************)
C11_DeclineIdempotent ==
    [][\A t \in Tasks : \A id \in RequestIds :
          decline_friend_request(t, id) =>
              /\ pc'[t] = "idle"
              /\ resp'[t].status = "OK"
              /\ resp'[t].success = TRUE
              /\ resp'[t].error = <<>>
              /\ id \notin DOMAIN friend_requests'
              /\ DOMAIN friend_requests' = DOMAIN friend_requests \ {id}
              /\ \A k \in DOMAIN friend_requests \ {id} :
                    friend_requests'[k] = friend_requests[k]
              /\ (id \notin DOMAIN friend_requests
                     => friend_requests' = friend_requests)
              /\ [k \in DOMAIN friend_requests' \ {id} |-> friend_requests'[k]]
                     = friend_requests'
              /\ friendships' = friendships
              /\ users' = users
      ]_vars

\* Both tasks have declined the same id, one after the other, both were
\* answered with success, the id is gone and another record is still stored.
C11_Witness ==
    /\ \A t \in Tasks :
          /\ pc[t] = "idle" /\ op[t].kind = "decline" /\ resp[t].status = "OK"
          /\ op[t].request_id \notin DOMAIN friend_requests
    /\ \A t1 \in Tasks, t2 \in Tasks : op[t1].request_id = op[t2].request_id
    /\ friend_requests # EmptyMap

(***************************************************************************)
(* C12.  The store-level accept of an id that has a record, whatever the   *)
(* record's status, leaves under that id the same record with status       *)
(* Accepted (same id, sender, receiver and timestamp) and returns it; the  *)
(* set of stored ids, every other record, the friend graph and the user    *)
(* registry are as they were.                                              *)
(***************************************************************************)
C12_AcceptInPlaceFrame ==
    [][\A t \in Tasks : \A id \in RequestIds :
          (accept_store(t, id) /\ id \in DOMAIN friend_requests) =>
              LET before == friend_requests[id]
                  after == [id |-> before.id, sender_id |-> before.sender_id,
                            receiver_id |-> before.receiver_id,
                            status |-> "accepted",
                            timestamp |-> before.timestamp]
              IN  /\ DOMAIN friend_requests' = DOMAIN friend_requests
                  /\ friend_requests'[id] = after
                  /\ op'[t].request = after
                  /\ \A k \in DOMAIN friend_requests \ {id} :
                        friend_requests'[k] = friend_requests[k]
                  /\ friendships' = friendships
                  /\ users' = users
      ]_vars

\* The store-level accept has run twice on one id, the second time on the
\* record the first had left Accepted, while the store holds another record
\* that is still Pending.
C12_Witness ==
    \E t1 \in Tasks, t2 \in Tasks :
        /\ t1 # t2
        /\ op[t1].kind = "accept" /\ pc[t1] = "accept_add2"
        /\ op[t2].kind = "accept" /\ pc[t2] = "accept_add1"
        /\ op[t1].request_id = op[t2].request_id
        /\ op[t1].request_id \in DOMAIN friend_requests
        /\ friend_requests[op[t1].request_id].status = Accepted
        /\ \E k \in DOMAIN friend_requests : friend_requests[k].status = Pending

(***************************************************************************)
(* C13.  The pending list of a user holds, each once, exactly the stored   *)
(* records whose receiver is the user and whose status is Pending, and     *)
(* listing changes nothing.  So the list holds no Accepted record, no      *)
(* record that is not in the store (a declined one), and no record the     *)
(* user sent to somebody else.                                             *)
(***************************************************************************)
C13_ListPending ==
    [][\A t \in Tasks : \A u \in Users :
          get_friend_requests(t, u) =>
              LET list == resp'[t].data[1].requests
                  listed == {list[i] : i \in 1..Len(list)}
                  stored == {friend_requests[k] : k \in DOMAIN friend_requests}
              IN  /\ resp'[t].status = "OK"
                  /\ listed = {r \in stored :
                                  r.receiver_id = u /\ r.status = "pending"}
                  /\ Len(list) = Cardinality(listed)
                  /\ \A r \in listed :
                        /\ r.status # "accepted"
                        /\ r.id \in DOMAIN friend_requests
                        /\ friend_requests[r.id] = r
                        /\ (r.sender_id = u => r.receiver_id = r.sender_id)
                  /\ friend_requests' = friend_requests
                  /\ friendships' = friendships
                  /\ users' = users
      ]_vars

\* A user's list has been answered with one record while the store holds
\* an Accepted record the user received and a Pending record the user sent
\* to somebody else, neither of them listed.
C13_Witness ==
    /\ pc[1] = "idle" /\ op[1].kind = "get_friend_requests"
    /\ resp[1].status = "OK"
    /\ Len(resp[1].data[1].requests) = 1
    /\ resp[1].data[1].requests[1].id \in DOMAIN friend_requests
    /\ \E k \in DOMAIN friend_requests :
          /\ friend_requests[k].receiver_id = op[1].user_id
          /\ friend_requests[k].status = Accepted
    /\ \E k \in DOMAIN friend_requests :
          /\ friend_requests[k].sender_id = op[1].user_id
          /\ friend_requests[k].receiver_id # op[1].user_id
          /\ friend_requests[k].status = Pending

(***************************************************************************)
(* C14.  For a # b every call add_friend(a, b) succeeds and appends one b  *)
(* to the end of a's list and one a to the end of b's list, whatever the   *)
(* lists hold already (a missing list counts as empty), so each call       *)
(* raises the number of occurrences of b in a's list, and of a in b's, by  *)
(* exactly one; no other user gains, loses or changes a list.              *)
(***************************************************************************)
C14_AddAppendsOnce ==
    [][\A t \in Tasks : \A a \in GraphUsers, b \in GraphUsers :
          (add_friend(t, a, b) /\ a # b) =>
              LET old(u) == IF u \in DOMAIN friendships
                            THEN friendships[u] ELSE <<>>
              IN  /\ resp'[t].status = "OK"
                  /\ resp'[t].success = TRUE
                  /\ DOMAIN friendships' = DOMAIN friendships \cup {a, b}
                  /\ friendships'[a] = old(a) \o <<b>>
                  /\ friendships'[b] = old(b) \o <<a>>
                  /\ Count(friendships'[a], b) = Count(old(a), b) + 1
                  /\ Count(friendships'[b], a) = Count(old(b), a) + 1
                  /\ \A c \in DOMAIN friendships \ {a, b} :
                        friendships'[c] = friendships[c]
      ]_vars

\* add_friend(a, b) has returned for the second time: b occurs twice in a's
\* list and a twice in b's, each list ending with the new entry, and a's list
\* holds a third user between the two.
C14_Witness ==
    /\ pc[1] = "idle" /\ op[1].kind = "add_friend" /\ resp[1].status = "OK"
    /\ op[1].user_id # op[1].friend_id
    /\ LET a == op[1].user_id
           b == op[1].friend_id
       IN  /\ a \in DOMAIN friendships /\ b \in DOMAIN friendships
           /\ Count(friendships[a], b) = 2
           /\ Count(friendships[b], a) = 2
           /\ Len(friendships[a]) = 3
           /\ friendships[a][1] = b /\ friendships[a][3] = b
           /\ friendships[b][Len(friendships[b])] = a

(***************************************************************************)
(* C15.  remove_friend(a, b) leaves a's list as it was with every b taken  *)
(* out and b's list as it was with every a taken out, the remaining        *)
(* entries in their order, so neither occurs in the other's list however   *)
(* often it did; every other list is unchanged, and the users that have a  *)
(* list are the same before and after.                                     *)
(***************************************************************************)
C15_RemoveStripsAll ==
    [][\A t \in Tasks : \A a \in GraphUsers, b \in GraphUsers :
          remove_friend(t, a, b) =>
              /\ resp'[t].status = "OK"
              /\ DOMAIN friendships' = DOMAIN friendships
              /\ \A c \in DOMAIN friendships :
                    friendships'[c] =
                        IF c = a /\ c = b
                        THEN SelectSeq(friendships[c], LAMBDA x : x # a)
                        ELSE IF c = a
                        THEN SelectSeq(friendships[c], LAMBDA x : x # b)
                        ELSE IF c = b
                        THEN SelectSeq(friendships[c], LAMBDA x : x # a)
                        ELSE friendships[c]
              /\ a \in DOMAIN friendships' => Count(friendships'[a], b) = 0
              /\ b \in DOMAIN friendships' => Count(friendships'[b], a) = 0
      ]_vars

\* remove_friend(a, b) has returned: b's list is there and empty, a's list
\* still holds its two entries of the third user, who lists a twice.
C15_Witness ==
    /\ pc[1] = "idle" /\ op[1].kind = "remove_friend" /\ resp[1].status = "OK"
    /\ op[1].user_id # op[1].friend_id
    /\ LET a == op[1].user_id
           b == op[1].friend_id
       IN  /\ a \in DOMAIN friendships /\ b \in DOMAIN friendships
           /\ friendships[b] = <<>>
           /\ Len(friendships[a]) = 2
           /\ \E c \in GraphUsers \ {a, b} :
                 /\ friendships[a] = <<c, c>>
                 /\ c \in DOMAIN friendships
                 /\ friendships[c] = <<a, a>>

(***************************************************************************)
(* C16.  When the mutations of the registry run one after another and the  *)
(* clock does not go back, no step lowers the last_updated of a stored     *)
(* user: the value after the step is greater than or equal to the value    *)
(* before it.                                                              *)
(***************************************************************************)
C16_SequentialMonotonic ==
    [][\A u \in DOMAIN users :
          /\ u \in DOMAIN users'
          /\ Len(users[u].last_updated) = 1
          /\ Len(users'[u].last_updated) = 1
          /\ users'[u].last_updated[1] >= users[u].last_updated[1]
      ]_vars

\* A user has had all three mutations, the last of them after the clock
\* had moved on from the location update's stamp.
C16_Witness ==
    /\ pc[1] = "idle"
    /\ \E u \in DOMAIN users :
          /\ Len(users[u].location) = 1
          /\ Len(users[u].sharing_level) = 1
          /\ Len(users[u].user_name) = 1
          /\ users[u].last_updated[1] > users[u].location[1].timestamp[1]

(***************************************************************************)
(* C17.  An upsert on an id with no record creates the record with that    *)
(* id, the given field, last_updated stamped with the time the call read,  *)
(* and the two other fields absent; on an id with a record it sets the     *)
(* given field and last_updated and keeps the id and the two other fields. *)
(* A stored location carries the same stamp.  Every other user's record    *)
(* is unchanged and no record is lost.                                     *)
(***************************************************************************)
C17_UpsertFrame ==
    [][\A t \in Tasks :
          LET id == op[t].user_id
              stamp == op[t].timestamp
              base == IF id \in DOMAIN users THEN users[id]
                      ELSE [id |-> id, user_name |-> <<>>,
                            sharing_level |-> <<>>, location |-> <<>>,
                            last_updated |-> <<>>]
              frame == /\ DOMAIN users' = DOMAIN users \cup {id}
                       /\ \A k \in DOMAIN users \ {id} : users'[k] = users[k]
                       /\ users'[id].id = id
                       /\ users'[id].last_updated = <<stamp>>
          IN  /\ update_location_write(t) =>
                    /\ frame
                    /\ users'[id].location = <<op[t].location>>
                    /\ op[t].location.timestamp = <<stamp>>
                    /\ users'[id].sharing_level = base.sharing_level
                    /\ users'[id].user_name = base.user_name
              /\ update_sharing_level_write(t) =>
                    /\ frame
                    /\ users'[id].sharing_level = <<op[t].level>>
                    /\ users'[id].location = base.location
                    /\ users'[id].user_name = base.user_name
              /\ update_profile_write(t) =>
                    /\ frame
                    /\ users'[id].user_name = op[t].user_name
                    /\ users'[id].location = base.location
                    /\ users'[id].sharing_level = base.sharing_level
      ]_vars

\* A sharing-level update has returned for a user whose record holds a
\* location and a name from earlier updates, while the other user has a
\* record of its own.
C17_Witness ==
    /\ pc[1] = "idle" /\ op[1].kind = "update_sharing_level"
    /\ DOMAIN users = Users
    /\ Len(users[op[1].user_id].location) = 1
    /\ Len(users[op[1].user_id].user_name) = 1
    /\ Len(users[op[1].user_id].sharing_level) = 1
    /\ users[op[1].user_id].last_updated[1]
           > users[op[1].user_id].location[1].timestamp[1]

(***************************************************************************)
(* C18.  In every reachable state the record stored under key k has id k,  *)
(* and a record that exists before a step exists after it with the same    *)
(* id: no operation deletes a user or changes its id.                      *)
(***************************************************************************)
C18_IdIsKeyAndKept ==
    /\ [](\A k \in DOMAIN users : users[k].id = k)
    /\ [][\A k \in DOMAIN users :
             k \in DOMAIN users' /\ users'[k].id = users[k].id]_vars

\* Both users have records, each created by a different mutation, and the
\* first of them has since been updated again.
C18_Witness ==
    /\ pc[1] = "idle"
    /\ DOMAIN users = Users
    /\ users[UserA].id = UserA /\ users[UserB].id = UserB
    /\ Len(users[UserA].location) = 1 /\ Len(users[UserA].sharing_level) = 1
    /\ Len(users[UserB].location) = 0 /\ Len(users[UserB].user_name) = 1
    /\ users[UserA].last_updated[1] > users[UserB].last_updated[1]

(***************************************************************************)
(* C19.  Reads on unknown ids are total and change nothing.  The lookup of *)
(* an id with no user record yields absent, and the profile fetch then     *)
(* answers OK with a profile that carries the id and no other field; the   *)
(* friend list of an id with no list is answered OK as the empty sequence. *)
(* After either read the registry and the graph are as before: no record   *)
(* and no list has been created.                                           *)
(***************************************************************************)
C19_UnknownReadsTotal ==
    [][\A t \in Tasks : \A u \in Users :
          /\ \A caller \in Users :
                (get_profile(t, caller, u) /\ u \notin DOMAIN users) =>
                    /\ get_user(users, u) = <<>>
                    /\ resp'[t].status = "OK"
                    /\ resp'[t].success = TRUE
                    /\ resp'[t].data =
                          <<[id |-> u, user_name |-> <<>>,
                             sharing_level |-> <<>>, location |-> <<>>,
                             last_updated |-> <<>>]>>
                    /\ users' = users
                    /\ friendships' = friendships
                    /\ friend_requests' = friend_requests
          /\ (get_friends(t, u) /\ u \notin DOMAIN friendships) =>
                    /\ resp'[t].status = "OK"
                    /\ resp'[t].success = TRUE
                    /\ resp'[t].data = <<[friends |-> <<>>]>>
                    /\ users' = users
                    /\ friendships' = friendships
                    /\ friend_requests' = friend_requests
      ]_vars

\* The profile of an id that has neither a record nor a friend list has
\* been fetched while another user has a record with a location: the answer
\* is the empty profile of that id, and the id still has no record.
C19_Witness ==
    /\ pc[1] = "idle" /\ op[1].kind = "get_profile" /\ resp[1].status = "OK"
    /\ op[1].user_id \notin DOMAIN users
    /\ op[1].user_id \notin DOMAIN friendships
    /\ resp[1].data[1].id = op[1].user_id
    /\ resp[1].data[1].location = <<>>
    /\ \E k \in DOMAIN users : Len(users[k].location) = 1

(***************************************************************************)
(* C20.  No task holds more than one guard at a time, so none holds the    *)
(* write guard of more than one of the three maps; the guards exclude      *)
(* each other as an RwLock's do; and no reachable state is a deadlock for  *)
(* a handler that has begun: the handler has a step it can take, or it     *)
(* waits for a map whose guard another task holds, and that task has a     *)
(* step it can take.  A holder never waits, so every handler that has      *)
(* begun can run to completion.                                            *)
(***************************************************************************)
C20_OneGuardNoDeadlock ==
    /\ \A t \in Tasks :
          /\ Cardinality(Held(t)) <= 1
          /\ Cardinality({g[1] : g \in {h \in Held(t) : h[2] = "write"}}) <= 1
    /\ \A map \in {"users", "friend_requests", "friendships"} :
          LET writers == {t \in Tasks : <<map, "write">> \in Held(t)}
              readers == {t \in Tasks : <<map, "read">> \in Held(t)}
          IN  /\ Cardinality(writers) <= 1
              /\ writers # {} => readers = {}
    /\ \A t \in Tasks :
          /\ Held(t) # {} => ENABLED Continue(t)
          /\ pc[t] # "idle" =>
                \/ ENABLED Continue(t)
                \/ \E t2 \in Tasks \ {t} :
                      /\ \E g \in Held(t2) : g[1] = Wants(pc[t])[1]
                      /\ ENABLED Continue(t2)

\* One task is inside the write section of the request store while the
\* other has begun a handler and waits for that same guard.
C20_Witness ==
    \E t1 \in Tasks, t2 \in Tasks :
        /\ pc[t1] = "send_write"
        /\ pc[t2] = "accept_wait"
        /\ <<"friend_requests", "write">> \in Held(t1)
        /\ ~ENABLED acquire(t2)
        /\ friendships # EmptyMap

(***************************************************************************)
(* C21.  A completed accept orchestration for a request from S to R        *)
(* (S # R) adds one edge: over its two add_friend calls the number of      *)
(* occurrences of R in S's list and of S in R's list each rise by exactly  *)
(* one.  The first call raises each by one, so the second call, which      *)
(* completes the orchestration, leaves both counts as the first left them. *)
(***************************************************************************)
C21_AcceptAddsOneEdge ==
    [][\A t \in Tasks :
          LET s == op[t].request.sender_id
              r == op[t].request.receiver_id
              delta(a, b) == Count(GetFriends(friendships', a), b)
                                 - Count(GetFriends(friendships, a), b)
          IN  /\ (accept_add_first(t) /\ s # r) =>
                    (delta(s, r) = 1 /\ delta(r, s) = 1)
              /\ (accept_add_second(t) /\ s # r) =>
                    (delta(s, r) = 0 /\ delta(r, s) = 0)
      ]_vars

(***************************************************************************)
(* C22.  The single friend-location retrieval answers with a present       *)
(* location only when the friend was in the caller's list as the handler   *)
(* read the graph.  When the friend is not in the list the handler answers *)
(* at once with the empty profile of the friend, whatever the registry     *)
(* holds; it goes on to read the registry only when the friend is listed,  *)
(* and only that read answers with a location.                             *)
(***************************************************************************)
C22_LocationOnlyForFriends ==
    [][\A t \in Tasks :
          /\ \A u \in Users, f \in Users :
                get_friend_location_friends(t, u, f) =>
                    LET list == IF u \in DOMAIN friendships
                                THEN friendships[u] ELSE <<>>
                        listed == \E i \in 1..Len(list) : list[i] = f
                    IN  IF listed
                        THEN /\ pc'[t] = "get_friend_location_user"
                             /\ resp'[t].status = "none"
                        ELSE /\ pc'[t] = "idle"
                             /\ resp'[t].status = "OK"
                             /\ resp'[t].data =
                                   <<[id |-> f, user_name |-> <<>>,
                                      sharing_level |-> <<>>,
                                      location |-> <<>>,
                                      last_updated |-> <<>>]>>
          /\ (/\ <<pc[t], op[t], resp[t]>> # <<pc'[t], op'[t], resp'[t]>>
              /\ op'[t].kind = "get_friend_location"
              /\ resp'[t].status = "OK"
              /\ Len(resp'[t].data[1].location) = 1) =>
                    get_friend_location_user(t)
      ]_vars

\* A retrieval has been answered with the empty profile for a user who is
\* not in the caller's list, while the registry holds that user's location
\* and a Realtime sharing level.
C22_Witness ==
    /\ pc[1] = "idle" /\ op[1].kind = "get_friend_location"
    /\ resp[1].status = "OK"
    /\ op[1].user_id # op[1].friend_id
    /\ resp[1].data[1] = EmptyUser(op[1].friend_id)
    /\ ~IsFriendOf(friendships, op[1].user_id, op[1].friend_id)
    /\ op[1].friend_id \in DOMAIN users
    /\ users[op[1].friend_id].sharing_level = Some(Realtime)
    /\ Len(users[op[1].friend_id].location) = 1

(***************************************************************************)
(* The stamp scenario: concurrent handlers work on the one request of the  *)
(* pair (UserA, UserB) while the clock moves on, so that records made at   *)
(* different times carry different timestamps.  remove_friend undoes what  *)
(* the accepts add to the graph.                                           *)
(***************************************************************************)
NextStamps ==
    \/ Tick
    \/ \E t \in Tasks :
        \/ send_check(t, UserA, UserB)
        \/ send_insert(t)
        \/ accept_store(t, RequestId(UserA, UserB))
        \/ accept_add_first(t)
        \/ accept_add_second(t)
        \/ decline_friend_request(t, RequestId(UserA, UserB))
        \/ remove_friend(t, UserA, UserB)

SpecStamps == Init /\ [][NextStamps]_vars

\* C23: in every reachable state each request record under key k has
\* id = k = senderId + "_" + receiverId and status Pending or Accepted,
\* never Declined; and across every step a record that stays present keeps
\* its senderId, receiverId and timestamp.
C23_RecordShapeAndStamp ==
    /\ [](\A k \in DOMAIN friend_requests :
            /\ friend_requests[k].id = k
            /\ k = friend_requests[k].sender_id \o "_"
                       \o friend_requests[k].receiver_id
            /\ friend_requests[k].status \in {Pending, Accepted})
    /\ [][\A k \in DOMAIN friend_requests \cap DOMAIN friend_requests' :
            /\ friend_requests'[k].sender_id = friend_requests[k].sender_id
            /\ friend_requests'[k].receiver_id = friend_requests[k].receiver_id
            /\ friend_requests'[k].timestamp = friend_requests[k].timestamp
         ]_vars

\* C24: decline returns the workflow of the ordered pair to its initial
\* state.  When decline(sender_receiver) completes the id is absent and the
\* friend lists are as they were; the send(sender, receiver) that follows
\* passes the duplicate check; and its insert answers OK with a record of
\* status Pending stamped with the send's clock reading, stores that record
\* under the id, and leaves the friend lists as they were.
C24_DeclineThenSendFresh ==
    [][/\ \A id \in AllRequestIds :
             decline_friend_request(1, id) =>
                 /\ id \notin DOMAIN friend_requests'
                 /\ friendships' = friendships
       /\ \A p \in AllPairs :
             (/\ send_check(1, p[1], p[2])
              /\ op[1].kind = "decline"
              /\ op[1].request_id = RequestId(p[1], p[2])) =>
                 /\ pc'[1] = "send_insert"
                 /\ resp'[1] = NoResponse
                 /\ op'[1].timestamp = now
                 /\ friendships' = friendships
       /\ send_insert(1) =>
             LET id == op[1].request_id
                 fresh == [id |-> id, sender_id |-> op[1].sender_id,
                           receiver_id |-> op[1].receiver_id,
                           status |-> Pending, timestamp |-> op[1].timestamp]
             IN  /\ resp'[1] = ApiOk(fresh)
                 /\ id \in DOMAIN friend_requests'
                 /\ friend_requests'[id] = fresh
                 /\ friendships' = friendships
      ]_vars

\* A send has just succeeded for (UserA, UserB) and its record is Pending,
\* while the friend lists still hold what an earlier accept wrote and no
\* request of the reverse pair is stored: the earlier request was accepted
\* and declined before this send.
C24_Witness ==
    /\ pc[1] = "idle"
    /\ op[1].kind = "send"
    /\ op[1].request_id = RequestId(UserA, UserB)
    /\ resp[1].status = "OK"
    /\ RequestId(UserA, UserB) \in DOMAIN friend_requests
    /\ friend_requests[RequestId(UserA, UserB)].status = Pending
    /\ RequestId(UserB, UserA) \notin DOMAIN friend_requests
    /\ Count(GetFriends(friendships, UserA), UserB) = 2
    /\ Count(GetFriends(friendships, UserB), UserA) = 2

(***************************************************************************)
(* The concurrent registry scenario: several tasks run the three mutations *)
(* of the registry on the one user UserA while the clock moves on.  Each   *)
(* mutation reads the clock first and writes under the write guard later,  *)
(* so other tasks' steps and ticks of the clock come between the two.      *)
(***************************************************************************)
NextConcurrent ==
    \/ Tick
    \/ \E t \in Tasks :
        \/ \E location \in RegistryLocations :
              update_location_start(t, UserA, location)
        \/ update_location_write(t)
        \/ \E level \in SharingLevel : update_sharing_level_start(t, UserA, level)
        \/ update_sharing_level_write(t)
        \/ \E user_name \in UserNames : update_profile_start(t, UserA, user_name)
        \/ update_profile_write(t)

SpecConcurrent == Init /\ [][NextConcurrent]_vars

\* The field a mutation in its write position is about to store, as
\* <<field name, value>>.
PendingWrite(t) ==
    CASE pc[t] = "update_location_write" -> <<"location", Some(op[t].location)>>
      [] pc[t] = "update_sharing_level_write" -> <<"sharing_level", Some(op[t].level)>>
      [] pc[t] = "update_profile_write" -> <<"user_name", op[t].user_name>>
      [] OTHER -> <<"none", None>>

\* C25: under concurrent mutations of the same user, with a clock that does
\* not go back, every step that changes the registry is the write of one
\* mutation and makes that mutation's field and its stamp visible together
\* (the step before it shows neither, the step after it shows both); and no
\* step lowers the stored last_updated of a user.
C25_ConcurrentAtomicMonotonic ==
    [][/\ users' # users =>
             \E t \in Tasks :
                LET w == PendingWrite(t)
                    u == op[t].user_id
                IN  /\ w[1] # "none"
                    /\ pc'[t] = "idle"
                    /\ u \in DOMAIN users'
                    /\ users'[u][w[1]] = w[2]
                    /\ users'[u].last_updated = Some(op[t].timestamp)
                    /\ \A f \in {"user_name", "sharing_level", "location"} \ {w[1]} :
                          users'[u][f] = IF u \in DOMAIN users
                                         THEN users[u][f] ELSE None
       /\ \A u \in DOMAIN users :
             /\ u \in DOMAIN users'
             /\ Len(users[u].last_updated) = 1
             /\ Len(users'[u].last_updated) = 1
             /\ users'[u].last_updated[1] >= users[u].last_updated[1]
      ]_vars
====
